---- MODULE Spec2Model ----
(***************************************************************************)
(* Conversational command interpretation and tool dispatch of the TODO     *)
(* application: the command extractor (TodoAgent._parse_function_call),    *)
(* the tool dispatcher (MCPToolServer.call_tool, backend and phase-3),     *)
(* the orchestrator (TodoAgent.process_message) and the chat endpoints of  *)
(* the backend, phase-2 and phase-3 variants.                              *)
(***************************************************************************)
EXTENDS Integers, Sequences, FiniteSets, TLC

(***************************************************************************)
(* Bounds of the model.                                                    *)
(***************************************************************************)
\* Number of task ids the persistence layer hands out before add_task is cut.
MaxTasks == 2
\* Conversations the phase-3 conversation table may hold.
MaxConversations == 2
\* Rows the phase-3 message table may hold.
MaxMessages == 4

(***************************************************************************)
(* JSON values, as json.loads builds them.  Every kind has its own field   *)
(* names, so values of different kinds are simply unequal.                 *)
(***************************************************************************)
JNull == [t |-> "null"]
JStr(s) == [t |-> "str", s |-> s]
JNum(n) == [t |-> "num", n |-> n]
JBool(b) == [t |-> "bool", b |-> b]
JArr(items) == [t |-> "arr", items |-> items]
JObj(m) == [t |-> "obj", m |-> m]
\* The empty dict: a function with the empty domain.
EmptyMap == [k \in {} |-> JNull]
\* Python's None as the value of dict.get on a missing key.
PyNone == JNull

\* dict.get(key): the value, or None when the key is absent.
Get(obj, key) == IF key \in DOMAIN obj.m THEN obj.m[key] ELSE PyNone
\* dict.get(key, default)
GetDefault(obj, key, default) == IF key \in DOMAIN obj.m THEN obj.m[key] ELSE default
\* key in dict
HasKey(obj, key) == key \in DOMAIN obj.m
\* dict[key] = value
SetKey(obj, key, value) ==
    JObj([k \in (DOMAIN obj.m) \cup {key} |-> IF k = key THEN value ELSE obj.m[k]])
\* {k: v for k, v in dict.items() if k != key}
DropKey(obj, key) == JObj([k \in (DOMAIN obj.m) \ {key} |-> obj.m[k]])

\* Python truthiness of a JSON value (bool(x)).
Truthy(v) ==
    CASE v.t = "null" -> FALSE
      [] v.t = "str"  -> v.s # ""
      [] v.t = "num"  -> v.n # 0
      [] v.t = "bool" -> v.b
      [] v.t = "arr"  -> Len(v.items) > 0
      [] v.t = "obj"  -> DOMAIN v.m # {}

(***************************************************************************)
(* LLM completion texts as token sequences.  A token stands for the run of *)
(* characters the extractor's regular expressions and json.loads treat as  *)
(* a unit: a brace, a bracket, a colon, a comma, a ``` fence, a run of     *)
(* whitespace, a bare word, a JSON literal, a number or a string literal   *)
(* (whose content holds no quote, brace or backslash).                     *)
(***************************************************************************)
LB == [k |-> "lb"]
RB == [k |-> "rb"]
LK == [k |-> "lk"]
RK == [k |-> "rk"]
COLON == [k |-> "colon"]
COMMA == [k |-> "comma"]
FENCE == [k |-> "fence"]
WS == [k |-> "ws"]
Word(s) == [k |-> "word", s |-> s]
Lit(s) == [k |-> "lit", s |-> s]
Num(n) == [k |-> "num", n |-> n]
Str(s) == [k |-> "str", s |-> s]

\* String contents that match \w+ (one or more word characters).
WordStrings ==
    {"add_task", "list_tasks", "complete_task", "delete_task", "update_task",
     "nonexistent_tool", "function", "arguments", "title", "task_id", "user_id",
     "x", "y", "u1", "u2", "note"}

IsWordString(s) == s \in WordStrings

\* The token at position i, or an end marker beyond the text.
Tok(toks, i) == IF i \in 1..Len(toks) THEN toks[i] ELSE [k |-> "eof"]

\* The least element of a non-empty set of integers.
Min(S) == CHOOSE x \in S : \A y \in S : x <= y

\* \s* : the first position at or after i that holds no whitespace.
RECURSIVE SkipWs(_, _)
SkipWs(toks, i) ==
    IF i <= Len(toks) /\ toks[i].k = "ws" THEN SkipWs(toks, i + 1) ELSE i

\* The last position at or before i that holds no whitespace.
RECURSIVE SkipWsBack(_, _)
SkipWsBack(toks, i) ==
    IF i >= 1 /\ toks[i].k = "ws" THEN SkipWsBack(toks, i - 1) ELSE i

\* str.strip()
Strip(toks) == SubSeq(toks, SkipWs(toks, 1), SkipWsBack(toks, Len(toks)))

(***************************************************************************)
(* json.loads on a token sequence: a recursive-descent parse.  A failed    *)
(* parse (json.JSONDecodeError) is [ok |-> FALSE].                         *)
(***************************************************************************)
ParseFail == [ok |-> FALSE]
ParseOk(v, next) == [ok |-> TRUE, v |-> v, next |-> next]

RECURSIVE ParseValue(_, _), ParseMembers(_, _, _), ParseItems(_, _, _)
ParseValue(toks, i) ==
    LET tk == Tok(toks, i) IN
    CASE tk.k = "str" -> ParseOk(JStr(tk.s), i + 1)
      [] tk.k = "num" -> ParseOk(JNum(tk.n), i + 1)
      [] tk.k = "lit" ->
            ParseOk(IF tk.s = "null" THEN JNull ELSE JBool(tk.s = "true"), i + 1)
      [] tk.k = "lb" ->
            LET j == SkipWs(toks, i + 1) IN
            IF Tok(toks, j).k = "rb" THEN ParseOk(JObj(EmptyMap), j + 1)
            ELSE ParseMembers(toks, j, JObj(EmptyMap))
      [] tk.k = "lk" ->
            LET j == SkipWs(toks, i + 1) IN
            IF Tok(toks, j).k = "rk" THEN ParseOk(JArr(<<>>), j + 1)
            ELSE ParseItems(toks, j, <<>>)
      [] OTHER -> ParseFail

\* "key" : value pairs up to the closing brace; a repeated key keeps its last value.
ParseMembers(toks, j, acc) ==
    LET key == Tok(toks, j)
        c == SkipWs(toks, j + 1)
        val == ParseValue(toks, SkipWs(toks, c + 1))
    IN  IF key.k # "str" \/ Tok(toks, c).k # "colon" THEN ParseFail
        ELSE IF ~val.ok THEN ParseFail
        ELSE LET e == SkipWs(toks, val.next)
                 acc2 == SetKey(acc, key.s, val.v)
             IN  CASE Tok(toks, e).k = "rb" -> ParseOk(acc2, e + 1)
                   [] Tok(toks, e).k = "comma" ->
                         ParseMembers(toks, SkipWs(toks, e + 1), acc2)
                   [] OTHER -> ParseFail

\* values up to the closing bracket.
ParseItems(toks, j, acc) ==
    LET val == ParseValue(toks, j) IN
    IF ~val.ok THEN ParseFail
    ELSE LET e == SkipWs(toks, val.next)
             acc2 == Append(acc, val.v)
         IN  CASE Tok(toks, e).k = "rk" -> ParseOk(JArr(acc2), e + 1)
               [] Tok(toks, e).k = "comma" ->
                     ParseItems(toks, SkipWs(toks, e + 1), acc2)
               [] OTHER -> ParseFail

\* json.loads(text): one value with optional whitespace around it, and nothing else.
JsonLoads(toks) ==
    LET r == ParseValue(toks, SkipWs(toks, 1)) IN
    IF r.ok /\ SkipWs(toks, r.next) = Len(toks) + 1
    THEN [ok |-> TRUE, v |-> r.v] ELSE ParseFail

(***************************************************************************)
(* TodoAgent._parse_function_call: four extraction methods, tried in       *)
(* order.  Each method is [found, data]; found is FALSE when the method    *)
(* falls through to the next one.                                          *)
(***************************************************************************)
NotFound == [found |-> FALSE]
Found(data) == [found |-> TRUE, data |-> data]

\* Method 1: the whole stripped text is a JSON object that has a "function" key.
Method1(toks) ==
    LET stripped == Strip(toks) IN
    IF Len(stripped) > 0 /\ stripped[1].k = "lb" /\ stripped[Len(stripped)].k = "rb"
    THEN LET r == JsonLoads(stripped) IN
         IF r.ok /\ HasKey(r.v, "function") THEN Found(r.v) ELSE NotFound
    ELSE NotFound

\* ```(?:json)?\s*(\{[\s\S]*?\})\s*``` anchored at the fence at position i:
\* the positions <<a, e>> of group 1, or <<>> when there is no match at i.
CodeBlockAt(toks, i) ==
    LET j == IF Tok(toks, i + 1) = Word("json") THEN i + 2 ELSE i + 1
        a == SkipWs(toks, j)
        ends == {e \in (a + 1)..Len(toks) :
                    toks[e].k = "rb" /\ Tok(toks, SkipWs(toks, e + 1)).k = "fence"}
    IN  IF Tok(toks, i).k = "fence" /\ Tok(toks, a).k = "lb" /\ ends # {}
        THEN <<a, Min(ends)>> ELSE <<>>

\* Method 2: the leftmost fenced block, parsed, accepted when it has a "function" key.
Method2(toks) ==
    LET starts == {i \in 1..Len(toks) : CodeBlockAt(toks, i) # <<>>} IN
    IF starts = {} THEN NotFound
    ELSE LET g == CodeBlockAt(toks, Min(starts))
             r == JsonLoads(SubSeq(toks, g[1], g[2]))
         IN  IF r.ok /\ HasKey(r.v, "function") THEN Found(r.v) ELSE NotFound

\* \{[^{}]*"function"[^{}]*\} anchored at the brace at position i: the position of
\* the closing brace, or 0 when there is no match at i.
InlineAt(toks, i) ==
    LET braces == {j \in (i + 1)..Len(toks) : toks[j].k \in {"lb", "rb"}} IN
    IF Tok(toks, i).k = "lb" /\ braces # {} /\ toks[Min(braces)].k = "rb"
       /\ \E p \in (i + 1)..(Min(braces) - 1) : toks[p] = Str("function")
    THEN Min(braces) ELSE 0

\* Method 3: the leftmost brace-free object text that holds the literal "function";
\* whatever it parses to is returned.
Method3(toks) ==
    LET starts == {i \in 1..Len(toks) : InlineAt(toks, i) # 0} IN
    IF starts = {} THEN NotFound
    ELSE LET i == Min(starts)
             r == JsonLoads(SubSeq(toks, i, InlineAt(toks, i)))
         IN  IF r.ok THEN Found(r.v) ELSE NotFound

\* "function"\s*:\s*"(\w+)" anchored at position j: the position of the captured
\* string, or 0.
FunctionPatAt(toks, j) ==
    LET c == SkipWs(toks, j + 1)
        v == SkipWs(toks, c + 1)
    IN  IF Tok(toks, j) = Str("function") /\ Tok(toks, c).k = "colon"
           /\ Tok(toks, v).k = "str" /\ IsWordString(Tok(toks, v).s)
        THEN v ELSE 0

\* "arguments"\s*:\s*(\{[^}]*\}).*?\} anchored at position k: the positions <<a, b>>
\* of the captured group, or <<>>.
ArgumentsPatAt(toks, k) ==
    LET c == SkipWs(toks, k + 1)
        a == SkipWs(toks, c + 1)
        rbs == {b \in (a + 1)..Len(toks) : toks[b].k = "rb"}
    IN  IF Tok(toks, k) = Str("arguments") /\ Tok(toks, c).k = "colon"
           /\ Tok(toks, a).k = "lb" /\ Cardinality(rbs) >= 2
        THEN <<a, Min(rbs)>> ELSE <<>>

\* The positions k after v at which the arguments pattern matches.
ArgumentsAfter(toks, v) ==
    {k \in (v + 1)..Len(toks) : ArgumentsPatAt(toks, k) # <<>>}

\* The positions j after the brace at i at which the function pattern matches and an
\* arguments pattern follows.
FunctionAfter(toks, i) ==
    {j \in (i + 1)..Len(toks) :
        FunctionPatAt(toks, j) # 0 /\ ArgumentsAfter(toks, FunctionPatAt(toks, j)) # {}}

\* Method 4 that keeps the function name and drops the captured arguments.
Method4_NameOnly(toks) ==
    LET starts == {i \in 1..Len(toks) : toks[i].k = "lb" /\ FunctionAfter(toks, i) # {}} IN
    IF starts = {} THEN NotFound
    ELSE LET v == FunctionPatAt(toks, Min(FunctionAfter(toks, Min(starts)))) IN
         Found(JObj([k \in {"function", "arguments"} |->
                       IF k = "function" THEN JStr(toks[v].s) ELSE JObj(EmptyMap)]))

\* Method 4: the function name and the arguments text captured separately by the
\* lazy pattern, the arguments text parsed, the command assembled by hand.
Method4(toks) ==
    LET starts == {i \in 1..Len(toks) : toks[i].k = "lb" /\ FunctionAfter(toks, i) # {}} IN
    IF starts = {} THEN NotFound
    ELSE LET j == Min(FunctionAfter(toks, Min(starts)))
             v == FunctionPatAt(toks, j)
             g == ArgumentsPatAt(toks, Min(ArgumentsAfter(toks, v)))
             args == JsonLoads(SubSeq(toks, g[1], g[2]))
         IN  IF args.ok
             THEN Found(JObj([k \in {"function", "arguments"} |->
                                IF k = "function" THEN JStr(toks[v].s) ELSE args.v]))
             ELSE NotFound

\* The number of the first method that returns, 0 when none does.
ParseMethod(toks) ==
    CASE Method1(toks).found -> 1
      [] Method2(toks).found -> 2
      [] Method3(toks).found -> 3
      [] Method4(toks).found -> 4
      [] OTHER -> 0

\* The four methods tried from the most lenient to the strictest.
parse_function_call_LenientFirst(toks) ==
    CASE Method4(toks).found -> Method4(toks).data
      [] Method3(toks).found -> Method3(toks).data
      [] Method2(toks).found -> Method2(toks).data
      [] Method1(toks).found -> Method1(toks).data
      [] OTHER -> PyNone

\* _parse_function_call(text): the dict of the first method that returns, else None.
parse_function_call(toks) ==
    CASE Method1(toks).found -> Method1(toks).data
      [] Method2(toks).found -> Method2(toks).data
      [] Method3(toks).found -> Method3(toks).data
      [] Method4(toks).found -> Method4(toks).data
      [] OTHER -> PyNone

(***************************************************************************)
(* The task table.  A database state is [tasks, nextId]: tasks maps the    *)
(* ids of the rows that exist to [user_id, title, completed] (the backend  *)
(* names the title column "content"), nextId is the value the id sequence  *)
(* of the persistence layer hands out next.                                *)
(***************************************************************************)
Users == {"u1", "u2"}

NoTasks == [i \in {} |-> [user_id |-> "u1", title |-> "x", completed |-> FALSE]]
EmptyDb == [tasks |-> NoTasks, nextId |-> 1]

\* INSERT: the row gets the next id of the sequence.
InsertTask(db, row) ==
    [tasks |-> [i \in (DOMAIN db.tasks) \cup {db.nextId} |->
                    IF i = db.nextId THEN row ELSE db.tasks[i]],
     nextId |-> db.nextId + 1]
\* DELETE of the row with this id.
DeleteTask(db, id) ==
    [db EXCEPT !.tasks = [i \in (DOMAIN db.tasks) \ {id} |-> db.tasks[i]]]
\* UPDATE of the row with this id.
StoreTask(db, id, row) == [db EXCEPT !.tasks[id] = row]

\* What a handler does: it returns a result, or it raises and the session's
\* transaction is lost.
Returned(result, db) == [raised |-> FALSE, result |-> result, db |-> db]
Raised(exc, db) == [raised |-> TRUE, exc |-> exc, db |-> db]

\* f"Task {task_id} not found"
TaskNotFoundText(task_id) == <<"Task ", task_id, " not found">>
NotFoundResult(task_id) ==
    [task_id |-> task_id, status |-> "not_found", error |-> TaskNotFoundText(task_id)]

(***************************************************************************)
(* backend/agent/mcp_tools.py: MCPToolServer                               *)
(***************************************************************************)
\* SelectTask without the Task.user_id == user_id condition.
SelectTask_AnyUser(db, task_id, user_id) ==
    IF task_id.t = "num" /\ task_id.n \in DOMAIN db.tasks THEN task_id.n ELSE 0

\* select(Task).where(Task.id == task_id, Task.user_id == user_id).first():
\* the id of the row, 0 for None.  A null task_id compares as IS NULL.
SelectTask(db, task_id, user_id) ==
    IF task_id.t = "num" /\ user_id.t = "str" /\ task_id.n \in DOMAIN db.tasks
       /\ db.tasks[task_id.n].user_id = user_id.s
    THEN task_id.n ELSE 0

\* The content and user_id columns are NOT NULL strings: the commit of a row
\* whose content or user_id is None raises IntegrityError.
\* _add_task that returns the result without the row being saved.
Backend_add_task_Unsaved(db, args) ==
    Returned([task_id |-> JNum(db.nextId), status |-> "created",
              title |-> Get(args, "title")],
             db)

Backend_add_task(db, args) ==
    LET user_id == Get(args, "user_id")
        title == Get(args, "title")
    IN  IF title.t # "str" \/ user_id.t # "str" THEN Raised("IntegrityError", db)
        ELSE Returned([task_id |-> JNum(db.nextId), status |-> "created",
                       title |-> title],
                      InsertTask(db, [user_id |-> user_id.s, title |-> title.s,
                                      completed |-> FALSE]))

\* _complete_task that sets the flag instead of negating it.
Backend_complete_task_MarkDone(db, args) ==
    LET user_id == Get(args, "user_id")
        task_id == Get(args, "task_id")
        id == SelectTask(db, task_id, user_id)
    IN  IF id = 0 THEN Returned(NotFoundResult(task_id), db)
        ELSE Returned([task_id |-> JNum(id), status |-> "completed",
                       title |-> JStr(db.tasks[id].title)],
                      StoreTask(db, id, [db.tasks[id] EXCEPT !.completed = TRUE]))

Backend_complete_task(db, args) ==
    LET user_id == Get(args, "user_id")
        task_id == Get(args, "task_id")
        id == SelectTask(db, task_id, user_id)
    IN  IF id = 0 THEN Returned(NotFoundResult(task_id), db)
        ELSE LET task == [db.tasks[id] EXCEPT !.completed = ~db.tasks[id].completed] IN
             Returned([task_id |-> JNum(id),
                       status |-> IF task.completed THEN "completed" ELSE "uncompleted",
                       title |-> JStr(task.title)],
                      StoreTask(db, id, task))

\* _delete_task that looks the row up by id alone and refuses a row of another
\* user with a status of its own.
Backend_delete_task_Forbidden(db, args) ==
    LET user_id == Get(args, "user_id")
        task_id == Get(args, "task_id")
        id == SelectTask_AnyUser(db, task_id, user_id)
    IN  IF id = 0 THEN Returned(NotFoundResult(task_id), db)
        ELSE IF JStr(db.tasks[id].user_id) # user_id
        THEN Returned([task_id |-> task_id, status |-> "forbidden",
                       error |-> TaskNotFoundText(task_id)], db)
        ELSE Returned([task_id |-> task_id, status |-> "deleted",
                       title |-> JStr(db.tasks[id].title)],
                      DeleteTask(db, id))

Backend_delete_task(db, args) ==
    LET user_id == Get(args, "user_id")
        task_id == Get(args, "task_id")
        id == SelectTask(db, task_id, user_id)
    IN  IF id = 0 THEN Returned(NotFoundResult(task_id), db)
        ELSE Returned([task_id |-> task_id, status |-> "deleted",
                       title |-> JStr(db.tasks[id].title)],
                      DeleteTask(db, id))

\* _update_task that also clears the completed flag.
Backend_update_task_Reopen(db, args) ==
    LET user_id == Get(args, "user_id")
        task_id == Get(args, "task_id")
        title == Get(args, "title")
        id == SelectTask(db, task_id, user_id)
    IN  IF id = 0 THEN Returned(NotFoundResult(task_id), db)
        ELSE IF title.t # "str" THEN Raised("IntegrityError", db)
        ELSE Returned([task_id |-> JNum(id), status |-> "updated", title |-> title],
                      StoreTask(db, id, [db.tasks[id] EXCEPT !.title = title.s,
                                                             !.completed = FALSE]))

\* _update_task: the title is written as given.
Backend_update_task(db, args) ==
    LET user_id == Get(args, "user_id")
        task_id == Get(args, "task_id")
        title == Get(args, "title")
        id == SelectTask(db, task_id, user_id)
    IN  IF id = 0 THEN Returned(NotFoundResult(task_id), db)
        ELSE IF title.t # "str" THEN Raised("IntegrityError", db)
        ELSE Returned([task_id |-> JNum(id), status |-> "updated", title |-> title],
                      StoreTask(db, id, [db.tasks[id] EXCEPT !.title = title.s]))

\* The ids of the rows of this user.
TasksOf(db, user) == {i \in DOMAIN db.tasks : db.tasks[i].user_id = user}

\* The orders in which a query may return the rows ids: the sequences that hold
\* each id once.
Orders(ids) ==
    {o \in [1..Cardinality(ids) -> ids] : \A i \in ids : \E k \in DOMAIN o : o[k] = i}

\* where(Task.user_id == user_id): the ids of `order` whose row is the user's.
RECURSIVE RowsOfUser(_, _, _)
RowsOfUser(db, order, user_id) ==
    IF Len(order) = 0 THEN <<>>
    ELSE LET rest == RowsOfUser(db, Tail(order), user_id) IN
         IF user_id.t = "str" /\ db.tasks[Head(order)].user_id = user_id.s
         THEN <<Head(order)>> \o rest ELSE rest

\* The result of list_tasks for the rows the query returned.
ListResult(db, rows) ==
    [tasks |-> [k \in DOMAIN rows |->
                   [id |-> rows[k], title |-> db.tasks[rows[k]].title,
                    completed |-> db.tasks[rows[k]].completed]],
     count |-> Len(rows)]

\* _list_tasks without the where clause: the rows of every user.
Backend_list_tasks_AllUsers(db, args, order) == Returned(ListResult(db, order), db)

\* select(Task).where(Task.user_id == user_id).all() has no ORDER BY: the rows come
\* in the order the database picks; `order` is the order in which it scans the
\* rows of the table.
Backend_list_tasks(db, args, order) ==
    Returned(ListResult(db, RowsOfUser(db, order, Get(args, "user_id"))), db)

\* f"Unknown tool: {name}"
UnknownToolResult(name) == [error |-> <<"Unknown tool: ", name>>]

\* MCPToolServer.call_tool
Backend_call_tool(db, name, args, order) ==
    CASE name = JStr("add_task") -> Backend_add_task(db, args)
      [] name = JStr("list_tasks") -> Backend_list_tasks(db, args, order)
      [] name = JStr("complete_task") -> Backend_complete_task(db, args)
      [] name = JStr("delete_task") -> Backend_delete_task(db, args)
      [] name = JStr("update_task") -> Backend_update_task(db, args)
      [] OTHER -> Returned(UnknownToolResult(name), db)

(***************************************************************************)
(* phase-3/backend: app/crud/task.py (TaskCRUD) and mcp_server/server.py   *)
(* (MCPToolServer).  The description column, which no tool result reads    *)
(* back, is left out of the rows.                                          *)
(***************************************************************************)
\* TaskCRUD.get: the id of the row with this id and this user, 0 for None.
TaskCRUD_get(db, user_id, task_id) ==
    IF task_id.t = "num" /\ user_id.t = "str" /\ task_id.n \in DOMAIN db.tasks
       /\ db.tasks[task_id.n].user_id = user_id.s
    THEN task_id.n ELSE 0

\* TaskCRUD.complete: [task, db], task 0 for None.
TaskCRUD_complete(db, user_id, task_id) ==
    LET id == TaskCRUD_get(db, user_id, task_id) IN
    IF id = 0 THEN [task |-> 0, db |-> db]
    ELSE [task |-> id, db |-> StoreTask(db, id, [db.tasks[id] EXCEPT !.completed = TRUE])]

\* TaskCRUD.update: a title of None leaves the title as it is.
TaskCRUD_update(db, user_id, task_id, title) ==
    LET id == TaskCRUD_get(db, user_id, task_id) IN
    IF id = 0 THEN [task |-> 0, db |-> db]
    ELSE IF title.t = "null" THEN [task |-> id, db |-> db]
    ELSE [task |-> id, db |-> StoreTask(db, id, [db.tasks[id] EXCEPT !.title = title.s])]

\* TaskCRUD.delete: [task, db], task 0 for None.
TaskCRUD_delete(db, user_id, task_id) ==
    LET id == TaskCRUD_get(db, user_id, task_id) IN
    IF id = 0 THEN [task |-> 0, db |-> db]
    ELSE [task |-> id, db |-> DeleteTask(db, id)]

\* TaskCRUD.get_all: the rows of the user, newest first (created_at descending),
\* filtered by status when one is given.
RECURSIVE Descending(_)
Descending(ids) ==
    IF ids = {} THEN <<>>
    ELSE LET m == CHOOSE x \in ids : \A y \in ids : y <= x IN
         <<m>> \o Descending(ids \ {m})

TaskCRUD_get_all(db, user_id, status) ==
    LET mine == IF user_id.t = "str" THEN TasksOf(db, user_id.s) ELSE {}
        kept == CASE status = JStr("completed") -> {i \in mine : db.tasks[i].completed}
                  [] status = JStr("pending") -> {i \in mine : ~db.tasks[i].completed}
                  [] OTHER -> mine
    IN  Descending(kept)

\* TaskCreate(title=...) accepts a string only (pydantic ValidationError otherwise);
\* the user_id column is NOT NULL.
Phase3_add_task(db, args) ==
    LET user_id == Get(args, "user_id")
        title == Get(args, "title")
    IN  IF title.t # "str" THEN Raised("ValidationError", db)
        ELSE IF user_id.t # "str" THEN Raised("IntegrityError", db)
        ELSE Returned([task_id |-> JNum(db.nextId), status |-> "created",
                       title |-> title],
                      InsertTask(db, [user_id |-> user_id.s, title |-> title.s,
                                      completed |-> FALSE]))

Phase3_list_tasks(db, args) ==
    LET rows == TaskCRUD_get_all(db, Get(args, "user_id"), Get(args, "status")) IN
    Returned([tasks |-> [k \in DOMAIN rows |->
                            [id |-> rows[k], title |-> db.tasks[rows[k]].title,
                             completed |-> db.tasks[rows[k]].completed]],
              count |-> Len(rows)],
             db)

Phase3_complete_task(db, args) ==
    LET task_id == Get(args, "task_id")
        r == TaskCRUD_complete(db, Get(args, "user_id"), task_id)
    IN  IF r.task = 0 THEN Returned(NotFoundResult(task_id), db)
        ELSE Returned([task_id |-> JNum(r.task), status |-> "completed",
                       title |-> JStr(r.db.tasks[r.task].title)],
                      r.db)

Phase3_delete_task(db, args) ==
    LET task_id == Get(args, "task_id")
        r == TaskCRUD_delete(db, Get(args, "user_id"), task_id)
    IN  IF r.task = 0 THEN Returned(NotFoundResult(task_id), db)
        ELSE Returned([task_id |-> JNum(r.task), status |-> "deleted",
                       title |-> JStr(db.tasks[r.task].title)],
                      r.db)

\* TaskUpdate(title=...) accepts a string or None.
Phase3_update_task(db, args) ==
    LET task_id == Get(args, "task_id")
        title == Get(args, "title")
        r == TaskCRUD_update(db, Get(args, "user_id"), task_id, title)
    IN  IF title.t \notin {"str", "null"} THEN Raised("ValidationError", db)
        ELSE IF r.task = 0 THEN Returned(NotFoundResult(task_id), db)
        ELSE Returned([task_id |-> JNum(r.task), status |-> "updated",
                       title |-> JStr(r.db.tasks[r.task].title)],
                      r.db)

\* MCPToolServer.call_tool (phase-3)
Phase3_call_tool(db, name, args) ==
    CASE name = JStr("add_task") -> Phase3_add_task(db, args)
      [] name = JStr("list_tasks") -> Phase3_list_tasks(db, args)
      [] name = JStr("complete_task") -> Phase3_complete_task(db, args)
      [] name = JStr("delete_task") -> Phase3_delete_task(db, args)
      [] name = JStr("update_task") -> Phase3_update_task(db, args)
      [] OTHER -> Returned(UnknownToolResult(name), db)

(***************************************************************************)
(* The reply texts of TodoAgent.process_message: each is the f-string of   *)
(* the source with the values it interpolates.                             *)
(***************************************************************************)
\* result.get(key) on a tool result
ResultGet(result, key) == IF key \in DOMAIN result THEN result[key] ELSE PyNone
\* result.get("status"), "None" when the result has no status
StatusOf(result) == IF "status" \in DOMAIN result THEN result.status ELSE "None"

TaskNotFoundReply == [fmt |-> "Task not found."]
HelpReply ==
    [fmt |-> "I can help you manage tasks. Try: 'add task buy groceries' or 'show tasks'"]

\* "  {id}. {title} [{status}]"
TaskLine(t) ==
    [id |-> t.id, title |-> t.title,
     status |-> IF t.completed THEN "done" ELSE "pending"]

\* The reply for a dispatched tool and its result (the if/elif chain on func_name).
ResponseText(func_name, result) ==
    CASE func_name = JStr("add_task") ->
            [fmt |-> "Added task: '{title}' (ID: {task_id})",
             title |-> ResultGet(result, "title"), task_id |-> ResultGet(result, "task_id")]
      [] func_name = JStr("list_tasks") ->
            LET listed == IF "tasks" \in DOMAIN result THEN result.tasks ELSE <<>> IN
            IF Len(listed) > 0
            THEN [fmt |-> "Your tasks:\n{lines}",
                  lines |-> [k \in DOMAIN listed |-> TaskLine(listed[k])]]
            ELSE [fmt |-> "You have no tasks yet. Try adding one!"]
      [] func_name = JStr("complete_task") ->
            IF StatusOf(result) \in {"completed", "uncompleted"}
            THEN [fmt |-> "Marked '{title}' as {status_word}!",
                  title |-> ResultGet(result, "title"),
                  status_word |-> IF StatusOf(result) = "completed"
                                  THEN "complete" ELSE "incomplete"]
            ELSE TaskNotFoundReply
      [] func_name = JStr("delete_task") ->
            IF StatusOf(result) = "deleted"
            THEN [fmt |-> "Deleted '{title}'", title |-> ResultGet(result, "title")]
            ELSE TaskNotFoundReply
      [] func_name = JStr("update_task") ->
            IF StatusOf(result) = "updated"
            THEN [fmt |-> "Updated task to '{title}'", title |-> ResultGet(result, "title")]
            ELSE TaskNotFoundReply
      [] OTHER -> [fmt |-> "Done!"]

(***************************************************************************)
(* State.                                                                  *)
(***************************************************************************)
VARIABLES
    variant,    \* the deployment that runs: "backend", "phase-2" or "phase-3"
    tasks,      \* the task table: id -> [user_id, title, completed]
    nextId,     \* the next value of the table's id sequence
    last,       \* the last tool call made through the dispatcher, with the table before it
    chat,       \* the last chat request handled by the endpoint, with the table before it
    conversations,  \* phase-3 conversation table: id -> [user_id], ids 1..Len
    messages,   \* phase-3 message table, in creation order
    extract,    \* a completion text and what the extractor returned for it
    todo,       \* phase-1 store: the module's _tasks and _task_id_counter, and tasks.json
    toggle      \* two complete_task requests on one task, each with its own session

vars == <<variant, tasks, nextId, last, chat, conversations, messages, extract,
          todo, toggle>>

Db == [tasks |-> tasks, nextId |-> nextId]

NoCall == [made |-> FALSE]
NoChat == [made |-> FALSE]
NoExtract == [done |-> FALSE]
NoTodo == [loaded |-> FALSE]
NoToggle == [started |-> FALSE]

Init ==
    /\ variant \in {"backend", "phase-3"}
    /\ tasks = NoTasks
    /\ nextId = 1
    /\ last = NoCall
    /\ chat = NoChat
    /\ conversations = <<>>
    /\ messages = <<>>
    /\ extract = NoExtract
    /\ todo = NoTodo
    /\ toggle = NoToggle

(***************************************************************************)
(* The dispatcher called with the arguments the orchestrator hands it:     *)
(* the arguments of the command with the caller's user_id put in.          *)
(***************************************************************************)
ToolNames == {"add_task", "list_tasks", "complete_task", "delete_task", "update_task"}

\* Values of the title argument: a title, the empty string, or no entry (which
\* the handlers read as None, like a null entry).
TitleArgs == {<<"title", JStr("x")>>, <<"title", JStr("")>>, <<>>}
\* Values of the task_id argument: an id the sequence can hand out (of a row that
\* exists, that was deleted, or that was never created), or no entry.
TaskIdArgs == {<<"task_id", JNum(n)>> : n \in 1..MaxTasks} \cup {<<>>}

\* The dict with the given entries (each <<key, value>>, or <<>> for none).
MakeArgs(entries) ==
    JObj([k \in {e[1] : e \in {x \in entries : x # <<>>}} |->
            (CHOOSE e \in entries : e # <<>> /\ e[1] = k)[2]])

\* The arguments the model hands each tool.
ArgsFor(name) ==
    CASE name = "add_task" -> {MakeArgs({t}) : t \in TitleArgs}
      [] name \in {"complete_task", "delete_task"} -> {MakeArgs({i}) : i \in TaskIdArgs}
      [] name = "update_task" -> {MakeArgs({i, t}) : i \in TaskIdArgs, t \in TitleArgs}
      [] OTHER -> {MakeArgs({})}

\* call_mcp_tool of the running deployment.
call_mcp_tool(db, name, args, order) ==
    IF variant = "phase-3" THEN Phase3_call_tool(db, name, args)
    ELSE Backend_call_tool(db, name, args, order)

\* The row orders the database may pick for the query of this call: only the
\* backend's list_tasks runs a query of more than one row without an ORDER BY.
RowOrders(user, name) ==
    IF name = "list_tasks" /\ variant # "phase-3" THEN Orders(DOMAIN tasks)
    ELSE {<<>>}

\* func_args["user_id"] = user_id; result = call_mcp_tool(session, func_name, func_args)
Dispatch(user, name, args) ==
    \E order \in RowOrders(user, name) :
        LET func_args == SetKey(args, "user_id", JStr(user))
            out == call_mcp_tool(Db, JStr(name), func_args, order)
        IN  /\ out.db.nextId <= MaxTasks + 1
            /\ tasks' = out.db.tasks
            /\ nextId' = out.db.nextId
            /\ last' = [made |-> TRUE, user |-> user, name |-> name, args |-> func_args,
                        out |-> [raised |-> out.raised,
                                 result |-> IF out.raised THEN [exc |-> out.exc]
                                            ELSE out.result],
                        pre |-> tasks]
            /\ UNCHANGED <<variant, chat, conversations, messages, extract, todo, toggle>>

DispatchAny ==
    \E user \in Users, name \in ToolNames \cup {"nonexistent_tool"} :
        \E args \in ArgsFor(name) : Dispatch(user, name, args)

Next == DispatchAny

Spec == Init /\ [][Next]_vars

(***************************************************************************)
(* backend/agent/todo_agent.py: TodoAgent.process_message.  The LLM call   *)
(* is the input llm: [ok |-> FALSE] when client.chat.completions.create    *)
(* raises, [ok |-> TRUE, content |-> text] when it returns (a content of   *)
(* None is the empty text).                                                *)
(***************************************************************************)
\* func_args["user_id"] = user_id
InjectUser_KeepGiven(func_args, user_id) ==
    IF HasKey(func_args, "user_id") THEN func_args
    ELSE SetKey(func_args, "user_id", JStr(user_id))

InjectUser(func_args, user_id) == SetKey(func_args, "user_id", JStr(user_id))

\* process_message raised: nothing is returned.  `calls` lists the calls made to
\* call_mcp_tool, each [name, args].
PmRaised(exc, db, func_call, calls) ==
    [raised |-> TRUE, exc |-> exc, db |-> db, func_call |-> func_call, calls |-> calls]
\* process_message returned (response_text, tool_calls_made).
PmReturned(response_text, tool_calls, db, func_call, calls) ==
    [raised |-> FALSE, response_text |-> response_text, tool_calls |-> tool_calls,
     db |-> db, func_call |-> func_call, calls |-> calls]

\* The record with the arguments as they were passed, user_id included.
Synthesize_KeepUser(func_call, func_name, args, out) ==
    IF out.raised
    THEN PmRaised(out.exc, out.db, func_call, <<[name |-> func_name, args |-> args]>>)
    ELSE PmReturned(ResponseText(func_name, out.result),
                    <<[name |-> func_name, arguments |-> args, result |-> out.result]>>,
                    out.db, func_call, <<[name |-> func_name, args |-> args]>>)

\* Record the tool call and generate the reply from the result.
Synthesize(func_call, func_name, args, out) ==
    IF out.raised
    THEN PmRaised(out.exc, out.db, func_call, <<[name |-> func_name, args |-> args]>>)
    ELSE PmReturned(ResponseText(func_name, out.result),
                    <<[name |-> func_name,
                       arguments |-> DropKey(args, "user_id"),
                       result |-> out.result]>>,
                    out.db, func_call, <<[name |-> func_name, args |-> args]>>)

\* if func_name: add the user_id, execute the function.
Execute(db, user_id, func_call, func_name, func_args, order) ==
    IF Truthy(func_name)
    THEN IF func_args.t # "obj"
         THEN \* item assignment on None, a list, a string or a number
              PmRaised("TypeError", db, func_call, <<>>)
         ELSE Synthesize(func_call, func_name, InjectUser(func_args, user_id),
                         call_mcp_tool(db, func_name, InjectUser(func_args, user_id), order))
    ELSE \* response_text is never assigned: the print of it raises
         PmRaised("UnboundLocalError", db, func_call, <<>>)

\* The else branch with the help message for every completion.
ActOn_AlwaysHelp(db, user_id, llm_response, func_call, order) ==
    IF Truthy(func_call)
    THEN Execute(db, user_id, func_call, Get(func_call, "function"),
                 GetDefault(func_call, "arguments", JObj(EmptyMap)), order)
    ELSE PmReturned(HelpReply, <<>>, db, func_call, <<>>)

\* if func_call: ... else: the LLM response, or the help message.
ActOn(db, user_id, llm_response, func_call, order) ==
    IF Truthy(func_call)
    THEN Execute(db, user_id, func_call, Get(func_call, "function"),
                 GetDefault(func_call, "arguments", JObj(EmptyMap)), order)
    ELSE PmReturned(IF Len(llm_response) > 0
                    THEN [fmt |-> "{llm_response}", llm_response |-> llm_response]
                    ELSE HelpReply,
                    <<>>, db, func_call, <<>>)

\* process_message with the LLM call wrapped: a failed call is answered with the help
\* message.
process_message_CatchLlmError(db, user_id, llm, order) ==
    IF ~llm.ok THEN PmReturned(HelpReply, <<>>, db, PyNone, <<>>)
    ELSE ActOn(db, user_id, llm.content, parse_function_call(llm.content), order)

process_message(db, user_id, llm, order) ==
    IF ~llm.ok THEN PmRaised("LLMError", db, PyNone, <<>>)
    ELSE ActOn(db, user_id, llm.content, parse_function_call(llm.content), order)

(***************************************************************************)
(* The chat endpoints of the backend (backend/main.py) and of phase-2      *)
(* (phase-2/backend/main.py).  A request carries the path user_id and a    *)
(* bearer token: "none" (no Authorization header), "invalid" (a token that *)
(* does not verify) or the subject of a token that verifies.               *)
(***************************************************************************)
Tokens == {"none", "invalid"} \cup Users

\* security.get_current_user: the TokenData, or the 401 it raises.
get_current_user(token) ==
    IF token \in Users THEN [ok |-> TRUE, user_id |-> token] ELSE [ok |-> FALSE]

\* The check without the comparison: every verified user passes.
AccessDenied_Never(current_user, user_id) == FALSE

\* backend chat: if current_user.user_id != user_id: raise HTTPException(403)
AccessDenied(current_user, user_id) == current_user.user_id # user_id

\* phase-2 verify_user_access: TRUE when it raises HTTPException(403).
verify_user_access(current_user, user_id) == current_user.user_id # user_id

\* The request was turned away before the handler's body did anything.
Rejected(user_id, token, status) ==
    [made |-> TRUE, user_id |-> user_id, token |-> token, status |-> status,
     llm_called |-> FALSE, calls |-> <<>>, pre |-> tasks]

\* The handler's body ran process_message: a ChatResponse of what it returned, or
\* the 500 of the except clause when it raised.
Handled(user_id, token, llm, pm) ==
    [made |-> TRUE, user_id |-> user_id, token |-> token,
     status |-> IF pm.raised THEN 500 ELSE 200,
     llm_called |-> TRUE, llm |-> llm, func_call |-> pm.func_call, calls |-> pm.calls,
     raised |-> pm.raised,
     out |-> IF pm.raised THEN [exc |-> pm.exc]
             ELSE [response |-> pm.response_text, tool_calls |-> pm.tool_calls],
     pre |-> tasks]

(***************************************************************************)
(* Completion texts the LLM may return.                                    *)
(***************************************************************************)
\* "key": value
Member(key, value) == <<Str(key), COLON, WS>> \o value
\* {member, member, ...}
RECURSIVE JoinMembers(_)
JoinMembers(members) ==
    IF Len(members) = 0 THEN <<>>
    ELSE IF Len(members) = 1 THEN members[1]
    ELSE members[1] \o <<COMMA, WS>> \o JoinMembers(Tail(members))
ObjectText(members) == <<LB>> \o JoinMembers(members) \o <<RB>>
\* {"function": name, "arguments": arguments}
CommandText(name, arguments) ==
    ObjectText(<<Member("function", name), Member("arguments", arguments)>>)
NamedCommand(name, members) == CommandText(<<Str(name)>>, ObjectText(members))

Prose == <<Word("Sure"), WS, Word("thing")>>
\* ```json\n<text>\n```
Fenced(text) == <<FENCE, Word("json"), WS>> \o text \o <<WS, FENCE>>

\* A command cut off inside its arguments: {"function": "add_task", "arguments": {"title":
Truncated ==
    <<LB>> \o Member("function", <<Str("add_task")>>) \o <<COMMA, WS>>
        \o Member("arguments", <<LB, Str("title"), COLON>>)

\* Commands that name a tool and give it a mapping of arguments.
ToolCommands ==
    {NamedCommand("add_task", <<Member("title", <<Str("x")>>)>>),
     NamedCommand("add_task", <<>>),
     NamedCommand("add_task", <<Member("title", <<Lit("null")>>)>>),
     NamedCommand("list_tasks", <<>>),
     ObjectText(<<Member("function", <<Str("list_tasks")>>)>>),
     NamedCommand("complete_task", <<Member("task_id", <<Num(1)>>)>>),
     NamedCommand("complete_task", <<>>),
     NamedCommand("delete_task", <<Member("task_id", <<Num(1)>>)>>),
     NamedCommand("update_task",
                  <<Member("task_id", <<Num(1)>>), Member("title", <<Str("")>>)>>),
     NamedCommand("update_task", <<Member("task_id", <<Num(1)>>)>>),
     NamedCommand("nonexistent_tool", <<>>)}
    \cup {NamedCommand("complete_task",
                       <<Member("task_id", <<Num(1)>>), Member("user_id", <<Str(u)>>)>>)
            : u \in Users}

\* Objects that are not such a command.
OddCommands ==
    {CommandText(<<Lit("null")>>, ObjectText(<<>>)),
     ObjectText(<<Member("function", <<Str("")>>)>>),
     ObjectText(<<Member("note", <<Str("function")>>)>>),
     CommandText(<<Str("add_task")>>, <<Lit("null")>>),
     CommandText(<<Str("add_task")>>, <<LK, Str("x"), RK>>),
     CommandText(<<Str("list_tasks")>>, <<Str("all")>>),
     CommandText(<<Str("nonexistent_tool")>>, <<Lit("null")>>)}

\* The command alone, in a code block, or after prose; prose alone; nothing.
Completions ==
    ToolCommands \cup OddCommands
    \cup {Fenced(NamedCommand("add_task", <<Member("title", <<Str("x")>>)>>)),
          Prose \o <<WS>> \o NamedCommand("delete_task", <<Member("task_id", <<Num(1)>>)>>),
          Prose \o <<WS>> \o ObjectText(<<Member("note", <<Str("function")>>)>>),
          Truncated,
          Prose,
          <<>>}

LlmOutcomes == {[ok |-> FALSE]} \cup {[ok |-> TRUE, content |-> c] : c \in Completions}

\* The row orders the database may pick while this completion is acted on.
ChatRowOrders(user, llm) ==
    IF llm.ok /\ \E i \in DOMAIN llm.content : llm.content[i] = Str("list_tasks")
    THEN RowOrders(user, "list_tasks")
    ELSE {<<>>}

(***************************************************************************)
(* backend/main.py chat and phase-2/backend/main.py chat.                  *)
(***************************************************************************)
ChatRejected(user_id, token, status) ==
    /\ chat' = Rejected(user_id, token, status)
    /\ UNCHANGED <<variant, tasks, nextId, last, conversations, messages, extract, todo, toggle>>

\* The tables and the record of the request after process_message.
ChatDone(user_id, token, llm, pm) ==
    /\ pm.db.nextId <= MaxTasks + 1
    /\ tasks' = pm.db.tasks
    /\ nextId' = pm.db.nextId
    /\ chat' = Handled(user_id, token, llm, pm)
    /\ UNCHANGED <<variant, last, conversations, messages, extract, todo, toggle>>

ChatHandled(user_id, token) ==
    \E llm \in LlmOutcomes : \E order \in ChatRowOrders(user_id, llm) :
        ChatDone(user_id, token, llm, process_message(Db, user_id, llm, order))

\* POST /api/{user_id}/chat of the backend
Backend_chat(user_id, token) ==
    /\ variant = "backend"
    /\ LET current_user == get_current_user(token) IN
       IF ~current_user.ok THEN ChatRejected(user_id, token, 401)
       ELSE IF AccessDenied(current_user, user_id) THEN ChatRejected(user_id, token, 403)
       ELSE ChatHandled(user_id, token)

\* POST /api/{user_id}/chat of phase-2
Phase2_chat(user_id, token) ==
    /\ variant = "phase-2"
    /\ LET current_user == get_current_user(token) IN
       IF ~current_user.ok THEN ChatRejected(user_id, token, 401)
       ELSE IF verify_user_access(current_user, user_id)
            THEN ChatRejected(user_id, token, 403)
            ELSE ChatHandled(user_id, token)

BackendChatAny == \E user_id \in Users, token \in Tokens : Backend_chat(user_id, token)
Phase2ChatAny == \E user_id \in Users, token \in Tokens : Phase2_chat(user_id, token)

InitChat ==
    /\ variant \in {"backend", "phase-2"}
    /\ tasks = NoTasks
    /\ nextId = 1
    /\ last = NoCall
    /\ chat = NoChat
    /\ conversations = <<>>
    /\ messages = <<>>
    /\ extract = NoExtract
    /\ todo = NoTodo
    /\ toggle = NoToggle

NextChat == BackendChatAny \/ Phase2ChatAny

SpecChat == InitChat /\ [][NextChat]_vars

(***************************************************************************)
(* phase-3/backend: app/crud/conversation.py, app/crud/message.py and the  *)
(* chat endpoint of app/api/chat.py.                                       *)
(***************************************************************************)
\* ConversationCRUD.create: the table with the new row, whose id is its length.
ConversationCRUD_create(convs, user_id) == Append(convs, [user_id |-> user_id])

\* ConversationCRUD.get: the conversation exists and is the user's.
ConversationCRUD_get(convs, user_id, conversation_id) ==
    conversation_id \in DOMAIN convs /\ convs[conversation_id].user_id = user_id

\* MessageCRUD.create
MessageCRUD_create(msgs, user_id, conversation_id, role, content) ==
    Append(msgs, [user_id |-> user_id, conversation_id |-> conversation_id,
                  role |-> role, content |-> content])

\* MessageCRUD.get_by_conversation: the rows of the conversation and the user, oldest
\* first.
RECURSIVE MessageCRUD_get_by_conversation(_, _, _)
MessageCRUD_get_by_conversation(msgs, user_id, conversation_id) ==
    IF Len(msgs) = 0 THEN <<>>
    ELSE LET rest == MessageCRUD_get_by_conversation(Tail(msgs), user_id, conversation_id)
             msg == Head(msgs)
         IN  IF msg.conversation_id = conversation_id /\ msg.user_id = user_id
             THEN <<msg>> \o rest ELSE rest

\* chat_history = [{"role": msg.role, "content": msg.content} for msg in existing_messages]
ChatHistory(existing_messages) ==
    [k \in DOMAIN existing_messages |->
        [role |-> existing_messages[k].role, content |-> existing_messages[k].content]]

\* The messages process_message sends to the model: the system prompt, the history
\* when there is one, and the message of the request as the last user turn.
Prompt(message, chat_history) ==
    <<[role |-> "system", content |-> "SYSTEM_PROMPT"]>>
        \o (IF chat_history # <<>> THEN chat_history ELSE <<>>)
        \o <<[role |-> "user", content |-> message]>>

\* app/agent/todo_agent.py of phase-3 is not among the sources: its process_message
\* is taken to act on the completion as the backend's does, with the phase-3 tools.
Phase3_process_message(db, user_id, llm, chat_history) ==
    process_message(db, user_id, llm, <<>>)

\* The message texts of the requests.
MessageTexts == {"hi", "more"}

\* The completions of the phase-3 runs.
Phase3LlmOutcomes ==
    {[ok |-> FALSE],
     [ok |-> TRUE, content |-> NamedCommand("add_task", <<Member("title", <<Str("x")>>)>>)],
     [ok |-> TRUE, content |-> Prose]}

\* conversation_id of the request (Optional[int]): None when absent or null, or an
\* id: 0, which no row has, the id of a row, or an id not yet handed out.
ConversationIds == {PyNone} \cup {JNum(n) : n \in 0..MaxConversations}

\* What the last request was and what the tables held before it.
Phase3Request(user_id, token, conversation_id, message) ==
    [made |-> TRUE, user_id |-> user_id, token |-> token,
     request |-> [conversation_id |-> conversation_id, message |-> message],
     pre |-> tasks, pre_conversations |-> conversations, pre_messages |-> messages]

\* c with the fields of d added.
Extend(c, d) ==
    [k \in DOMAIN c \cup DOMAIN d |-> IF k \in DOMAIN d THEN d[k] ELSE c[k]]

\* The tables and the record of the request after process_message: the assistant
\* message is stored when process_message returned.
Phase3Done(req, convs, cid, chat_history, llm, pm) ==
    /\ Len(convs) <= MaxConversations
    /\ Len(messages) + 2 <= MaxMessages
    /\ pm.db.nextId <= MaxTasks + 1
    /\ conversations' = convs
    /\ tasks' = pm.db.tasks
    /\ nextId' = pm.db.nextId
    /\ messages' =
          IF pm.raised
          THEN MessageCRUD_create(messages, req.user_id, cid, "user", req.request.message)
          ELSE MessageCRUD_create(
                   MessageCRUD_create(messages, req.user_id, cid, "user",
                                      req.request.message),
                   req.user_id, cid, "assistant", pm.response_text)
    /\ chat' = Extend(req, [status |-> IF pm.raised THEN 500 ELSE 200,
                            llm_called |-> TRUE, llm |-> llm,
                            conversation_id |-> cid, history |-> chat_history,
                            prompt |-> Prompt(req.request.message, chat_history),
                            calls |-> pm.calls, raised |-> pm.raised,
                            out |-> IF pm.raised THEN [exc |-> pm.exc]
                                    ELSE [response |-> pm.response_text,
                                          tool_calls |-> pm.tool_calls]])
    /\ UNCHANGED <<variant, last, extract, todo, toggle>>

\* The history is read, the user message stored and the agent called.
Phase3Process(req, convs, cid, chat_history) ==
    \E llm \in Phase3LlmOutcomes :
        Phase3Done(req, convs, cid, chat_history, llm,
                   Phase3_process_message(Db, req.user_id, llm, chat_history))

\* The history read after the user message was stored.
Phase3Converse_StoreFirst(req, convs, cid) ==
    Phase3Process(req, convs, cid,
                  ChatHistory(MessageCRUD_get_by_conversation(
                      MessageCRUD_create(messages, req.user_id, cid, "user",
                                         req.request.message),
                      req.user_id, cid)))

\* Get or create the conversation, then go on with its id.
Phase3Converse(req, convs, cid) ==
    Phase3Process(req, convs, cid,
                  ChatHistory(MessageCRUD_get_by_conversation(messages, req.user_id, cid)))

\* POST /{user_id}/chat of phase-3.  The handler takes no credentials: the token of
\* the request is not read.
Phase3_chat(user_id, token, conversation_id, message) ==
    /\ variant = "phase-3"
    /\ IF Truthy(conversation_id)
       THEN IF ConversationCRUD_get(conversations, user_id, conversation_id.n)
            THEN Phase3Converse(Phase3Request(user_id, token, conversation_id, message),
                                conversations, conversation_id.n)
            ELSE /\ chat' = Extend(Phase3Request(user_id, token, conversation_id, message),
                                   [status |-> 404, llm_called |-> FALSE, calls |-> <<>>])
                 /\ UNCHANGED <<variant, tasks, nextId, last, conversations, messages, extract, todo, toggle>>
       ELSE Phase3Converse(Phase3Request(user_id, token, conversation_id, message),
                           ConversationCRUD_create(conversations, user_id),
                           Len(conversations) + 1)

Phase3ChatAny ==
    \E user_id \in Users, conversation_id \in ConversationIds, message \in MessageTexts :
      \E token \in {"none", user_id} :
        Phase3_chat(user_id, token, conversation_id, message)

InitChat3 ==
    /\ variant = "phase-3"
    /\ tasks = NoTasks
    /\ nextId = 1
    /\ last = NoCall
    /\ chat = NoChat
    /\ conversations = <<>>
    /\ messages = <<>>
    /\ extract = NoExtract
    /\ todo = NoTodo
    /\ toggle = NoToggle

NextChat3 == Phase3ChatAny

SpecChat3 == InitChat3 /\ [][NextChat3]_vars

(***************************************************************************)
(* The command extractor on its own: a completion text is drawn, then      *)
(* _parse_function_call is applied to it.  A text is an object text in a   *)
(* wrapper.                                                                *)
(***************************************************************************)
\* Well-formed commands: a function name and an arguments object.
CanonicalCommands ==
    {NamedCommand("add_task", <<Member("title", <<Str("x")>>)>>),
     NamedCommand("list_tasks", <<>>),
     NamedCommand("complete_task", <<Member("task_id", <<Num(1)>>)>>),
     NamedCommand("delete_task", <<Member("task_id", <<Num(1)>>)>>),
     NamedCommand("update_task",
                  <<Member("task_id", <<Num(1)>>), Member("title", <<Str("x")>>)>>)}

\* Other object texts, and texts that hold no object.
OtherObjects ==
    {ObjectText(<<Member("function", <<Str("list_tasks")>>)>>),
     ObjectText(<<Member("note", <<Str("function")>>)>>),
     ObjectText(<<Member("title", <<Str("x")>>)>>),
     ObjectText(<<>>),
     CommandText(<<Lit("null")>>, ObjectText(<<>>)),
     CommandText(<<Str("add_task")>>, <<Lit("null")>>),
     ObjectText(<<Member("function", <<Str("add_task")>>),
                  Member("arguments", ObjectText(<<Member("title", <<Str("x")>>)>>)),
                  Member("id", <<Num(1)>>)>>),
     ObjectText(<<Member("arguments", ObjectText(<<Member("title", <<Str("x")>>)>>)),
                  Member("function", <<Str("add_task")>>)>>),
     Truncated}
NoObjects == {<<>>, Prose, <<Word("no"), WS, Word("json"), WS, Word("here")>>}

Wrappers ==
    {"whole", "padded", "fenced json", "fenced", "prose before", "prose after",
     "prose around", "fenced in prose"}

\* The object text in the wrapper.
Wrap(wrapper, object) ==
    CASE wrapper = "whole" -> object
      [] wrapper = "padded" -> <<WS>> \o object \o <<WS>>
      [] wrapper = "fenced json" -> Fenced(object)
      [] wrapper = "fenced" -> <<FENCE, WS>> \o object \o <<WS, FENCE>>
      [] wrapper = "prose before" -> Prose \o <<WS>> \o object
      [] wrapper = "prose after" -> object \o <<WS>> \o Prose
      [] wrapper = "prose around" -> Prose \o <<WS>> \o object \o <<WS>> \o Prose
      [] wrapper = "fenced in prose" -> Prose \o <<WS>> \o Fenced(object) \o <<WS>> \o Prose

\* func_call = self._parse_function_call(llm_response)
Extract ==
    /\ ~extract.done
    /\ extract' = [extract EXCEPT !.done = TRUE]
                     @@ [result |-> parse_function_call(extract.text),
                         method |-> ParseMethod(extract.text)]
    /\ UNCHANGED <<variant, tasks, nextId, last, chat, conversations, messages,
                 todo, toggle>>

InitExtract ==
    /\ variant = "backend"
    /\ tasks = NoTasks
    /\ nextId = 1
    /\ last = NoCall
    /\ chat = NoChat
    /\ conversations = <<>>
    /\ messages = <<>>
    /\ \E wrapper \in Wrappers,
          object \in CanonicalCommands \cup OtherObjects \cup NoObjects :
          extract = [done |-> FALSE, wrapper |-> wrapper, object |-> object,
                     text |-> Wrap(wrapper, object)]
    /\ todo = NoTodo
    /\ toggle = NoToggle

NextExtract == Extract

SpecExtract == InitExtract /\ [][NextExtract]_vars

(***************************************************************************)
(* Phase-1: the command-line store of phase-1/src/todo.py.  The module     *)
(* keeps the list _tasks and the counter _task_id_counter in memory and    *)
(* writes the whole list to tasks.json after every change.                 *)
(***************************************************************************)
\* Ids add_task hands out before the model cuts it.
MaxTodoId == 2

\* Task(title=..., description=..., id=..., status=...)
Task(title, description, id, status) ==
    [title |-> title, description |-> description, id |-> id, status |-> status]
\* task.model_dump(): the dict json.dump writes.
model_dump(task) ==
    JObj([k \in {"title", "description", "id", "status"} |->
            CASE k = "title" -> JStr(task.title)
              [] k = "description" -> JStr(task.description)
              [] k = "id" -> JNum(task.id)
              [] k = "status" -> JBool(task.status)])
\* Task(**task) of a dict read from the file; status defaults to False.
TaskOfDict(obj) ==
    Task(Get(obj, "title").s, Get(obj, "description").s, Get(obj, "id").n,
         GetDefault(obj, "status", JBool(FALSE)).b)

\* tasks.json: missing, of zero bytes (json.load raises JSONDecodeError), or a JSON
\* list of dicts.
FileAbsent == [kind |-> "absent"]
FileEmpty == [kind |-> "empty"]
FileJson(items) == [kind |-> "json", data |-> JArr(items)]

\* _tasks.sort(key=lambda x: x.id): a stable sort by id.
InsertById(task, sorted) ==
    LET n == Cardinality({k \in DOMAIN sorted : sorted[k].id <= task.id}) IN
    SubSeq(sorted, 1, n) \o <<task>> \o SubSeq(sorted, n + 1, Len(sorted))
RECURSIVE SortById(_)
SortById(ts) ==
    IF ts = <<>> THEN <<>>
    ELSE InsertById(ts[Len(ts)], SortById(SubSeq(ts, 1, Len(ts) - 1)))

\* The module's memory and the file.
Store(ts, counter, file) == [tasks |-> ts, counter |-> counter, file |-> file]

\* Loading a list whose last task holds an id at or below the largest.
load_tasks_CountRows(store) ==
    IF store.file.kind # "json" THEN Store(<<>>, 1, store.file)
    ELSE LET items == store.file.data.items
             ts == SortById([k \in DOMAIN items |-> TaskOfDict(items[k])])
         IN  Store(ts, Len(ts) + 1, store.file)

\* _load_tasks(): the list of the file sorted by id and the counter one past the
\* last id; the empty list and 1 when the file is missing, unreadable or empty.
load_tasks(store) ==
    IF store.file.kind # "json" THEN Store(<<>>, 1, store.file)
    ELSE LET items == store.file.data.items
             ts == SortById([k \in DOMAIN items |-> TaskOfDict(items[k])])
         IN  IF ts # <<>> THEN Store(ts, ts[Len(ts)].id + 1, store.file)
             ELSE Store(<<>>, 1, store.file)

\* _save_tasks(): the file rewritten with the dump of every task, in list order.
save_tasks(store) ==
    [store EXCEPT !.file = FileJson([k \in DOMAIN store.tasks |->
                                        model_dump(store.tasks[k])])]

\* What a call leaves: the task it returned, or ValueError, and the store.
TodoReturned(task, store) == [raised |-> FALSE, task |-> task, store |-> store]
TodoRaised(store) == [raised |-> TRUE, exc |-> "ValueError", store |-> store]
\* _load_tasks() returns nothing: no task, id 0 in the record of the call.
TodoLoaded(store) == [raised |-> FALSE, task |-> [id |-> 0], store |-> store]

\* add_task(title, description)
Todo_add_task(store, title, description) ==
    LET task == Task(title, description, store.counter, FALSE) IN
    TodoReturned(task, save_tasks([store EXCEPT !.tasks = Append(@, task),
                                                !.counter = @ + 1]))

\* get_task that falls back on the first task of the list.
Todo_get_task_FirstTask(store, task_id) ==
    LET hits == {k \in DOMAIN store.tasks : store.tasks[k].id = task_id} IN
    IF hits = {} THEN (IF store.tasks = <<>> THEN 0 ELSE 1) ELSE Min(hits)

\* get_task(task_id): the position of the first task with the id, 0 when the loop
\* ends without one (ValueError).
Todo_get_task(store, task_id) ==
    LET hits == {k \in DOMAIN store.tasks : store.tasks[k].id = task_id} IN
    IF hits = {} THEN 0 ELSE Min(hits)

\* The task at position k with one field set, then _save_tasks().
SetAndSave(store, k, task) ==
    TodoReturned(task, save_tasks([store EXCEPT !.tasks[k] = task]))

\* update_task(task_id, title, description): a field is assigned unless its
\* argument is None.
Todo_update_task(store, task_id, title, description) ==
    LET k == Todo_get_task(store, task_id) IN
    IF k = 0 THEN TodoRaised(store)
    ELSE SetAndSave(store, k,
            [store.tasks[k] EXCEPT
                !.title = IF title # PyNone THEN title.s ELSE @,
                !.description = IF description # PyNone THEN description.s ELSE @])

\* list.remove(task): the list without its first element equal to task.
Remove(ts, task) ==
    LET k == Min({j \in DOMAIN ts : ts[j] = task}) IN
    SubSeq(ts, 1, k - 1) \o SubSeq(ts, k + 1, Len(ts))

\* delete_task that leaves the file as it was.
Todo_delete_task_Unsaved(store, task_id) ==
    LET k == Todo_get_task(store, task_id) IN
    IF k = 0 THEN TodoRaised(store)
    ELSE TodoReturned(store.tasks[k],
                      [store EXCEPT !.tasks = Remove(@, store.tasks[k])])

\* delete_task(task_id)
Todo_delete_task(store, task_id) ==
    LET k == Todo_get_task(store, task_id) IN
    IF k = 0 THEN TodoRaised(store)
    ELSE TodoReturned(store.tasks[k],
                      save_tasks([store EXCEPT !.tasks = Remove(@, store.tasks[k])]))

\* complete_task that negates the status.
Todo_complete_task_Toggle(store, task_id) ==
    LET k == Todo_get_task(store, task_id) IN
    IF k = 0 THEN TodoRaised(store)
    ELSE SetAndSave(store, k, [store.tasks[k] EXCEPT !.status = ~@])

\* complete_task(task_id)
Todo_complete_task(store, task_id) ==
    LET k == Todo_get_task(store, task_id) IN
    IF k = 0 THEN TodoRaised(store)
    ELSE SetAndSave(store, k, [store.tasks[k] EXCEPT !.status = TRUE])

\* incomplete_task(task_id)
Todo_incomplete_task(store, task_id) ==
    LET k == Todo_get_task(store, task_id) IN
    IF k = 0 THEN TodoRaised(store)
    ELSE SetAndSave(store, k, [store.tasks[k] EXCEPT !.status = FALSE])

\* list_tasks()
Todo_list_tasks(store) == store.tasks

\* The store of the state.
TodoStore == Store(todo.tasks, todo.counter, todo.file)

\* The state after a call: the store it left, the call, its outcome and the call
\* that went before it, and the ids add_task has handed out so far.
TodoAfter(op, task_id, title, description, out) ==
    [loaded |-> TRUE, tasks |-> out.store.tasks, counter |-> out.store.counter,
     file |-> out.store.file,
     last |-> [op |-> op, task_id |-> task_id, title |-> title,
               description |-> description, raised |-> out.raised,
               id |-> IF out.raised THEN 0 ELSE out.task.id,
               after |-> todo.last.op],
     issued |-> IF op = "add_task" THEN todo.issued \cup {out.task.id}
                ELSE todo.issued]

\* The task ids the model calls with: every id the counter can reach.
TodoIds == 1..(MaxTodoId + 1)
\* Values of update_task's title and description: None or a new text.
NewTitles == {PyNone, JStr("b")}
NewDescriptions == {PyNone, JStr("e")}

TodoFrame ==
    UNCHANGED <<variant, tasks, nextId, last, chat, conversations, messages,
                extract, toggle>>

TodoAdd ==
    /\ todo.counter <= MaxTodoId
    /\ todo' = TodoAfter("add_task", 0, JStr("a"), JStr("d"),
                         Todo_add_task(TodoStore, "a", "d"))
    /\ TodoFrame

TodoGet ==
    /\ \E task_id \in TodoIds :
          todo' = TodoAfter("get_task", task_id, PyNone, PyNone,
                            IF Todo_get_task(TodoStore, task_id) = 0
                            THEN TodoRaised(TodoStore)
                            ELSE TodoReturned(
                                    todo.tasks[Todo_get_task(TodoStore, task_id)],
                                    TodoStore))
    /\ TodoFrame

TodoUpdate ==
    /\ \E task_id \in TodoIds, title \in NewTitles, description \in NewDescriptions :
          todo' = TodoAfter("update_task", task_id, title, description,
                            Todo_update_task(TodoStore, task_id, title, description))
    /\ TodoFrame

TodoDelete ==
    /\ \E task_id \in TodoIds :
          todo' = TodoAfter("delete_task", task_id, PyNone, PyNone,
                            Todo_delete_task(TodoStore, task_id))
    /\ TodoFrame

TodoComplete ==
    /\ \E task_id \in TodoIds :
          todo' = TodoAfter("complete_task", task_id, PyNone, PyNone,
                            Todo_complete_task(TodoStore, task_id))
    /\ TodoFrame

TodoIncomplete ==
    /\ \E task_id \in TodoIds :
          todo' = TodoAfter("incomplete_task", task_id, PyNone, PyNone,
                            Todo_incomplete_task(TodoStore, task_id))
    /\ TodoFrame

\* The program started again: the module is imported and _load_tasks() runs.
TodoLoad ==
    /\ todo' = TodoAfter("_load_tasks", 0, PyNone, PyNone,
                         TodoLoaded(load_tasks(TodoStore)))
    /\ TodoFrame

\* The module as imported in a directory without tasks.json, with a tasks.json of
\* zero bytes, or with one that holds the empty list.
InitTodo ==
    /\ variant = "phase-1"
    /\ tasks = NoTasks
    /\ nextId = 1
    /\ last = NoCall
    /\ chat = NoChat
    /\ conversations = <<>>
    /\ messages = <<>>
    /\ extract = NoExtract
    /\ toggle = NoToggle
    /\ \E file \in {FileAbsent, FileEmpty, FileJson(<<>>)} :
          todo = [loaded |-> TRUE, tasks |-> load_tasks(Store(<<>>, 1, file)).tasks,
                  counter |-> load_tasks(Store(<<>>, 1, file)).counter,
                  file |-> file,
                  last |-> [op |-> "_load_tasks", task_id |-> 0, title |-> PyNone,
                            description |-> PyNone, raised |-> FALSE, id |-> 0,
                            after |-> "import"],
                  issued |-> {}]

NextTodo ==
    \/ TodoAdd
    \/ TodoGet
    \/ TodoUpdate
    \/ TodoDelete
    \/ TodoComplete
    \/ TodoIncomplete
    \/ TodoLoad

SpecTodo == InitTodo /\ [][NextTodo]_vars

(***************************************************************************)
(* Two complete requests on one task of the backend, served at the same    *)
(* time.  A request comes through the complete_task tool (_complete_task)  *)
(* or through PATCH /api/{user_id}/tasks/{task_id}/complete                *)
(* (toggle_task_completion); each has a session of its own (get_session),  *)
(* selects the row, assigns the negation of the flag it read, commits and  *)
(* refreshes.  The engine is created with the default isolation level, so  *)
(* a commit writes the assigned value whatever was committed in between.   *)
(***************************************************************************)
Requests == {1, 2}
\* The ways a request comes in.
Entries == {"complete_task", "toggle_task_completion"}

\* The select of both handlers: the row when it is the user's, else nothing.
ToggleSelect(owner, user_id) == owner = user_id

\* A request with the row it has loaded, if any.
ToggleRequest(user_id, via) ==
    [pc |-> "start", user_id |-> user_id, via |-> via, loaded |-> FALSE]

ToggleFrame ==
    UNCHANGED <<variant, tasks, nextId, last, chat, conversations, messages,
                extract, todo>>

\* session.exec(select(Task).where(Task.id == task_id, Task.user_id == user_id)).first()
\* and the not-found answer of the handler.
ToggleRead(r) ==
    /\ toggle.req[r].pc = "start"
    /\ toggle' =
          IF ToggleSelect(toggle.owner, toggle.req[r].user_id)
          THEN [toggle EXCEPT !.req[r].pc = "read",
                              !.req[r].loaded = TRUE,
                              !.req[r] = @ @@ [completed |-> toggle.completed]]
          ELSE [toggle EXCEPT !.req[r].pc = "done",
                              !.req[r] = @ @@ [status |-> "not_found"]]
    /\ ToggleFrame

\* task.completed = not task.completed; session.add(task); session.commit()
ToggleWrite(r) ==
    /\ toggle.req[r].pc = "read"
    /\ toggle' = [toggle EXCEPT !.req[r].pc = "committed",
                                !.req[r].completed = ~toggle.req[r].completed,
                                !.completed = ~toggle.req[r].completed,
                                !.writes = @ + 1]
    /\ ToggleFrame

\* session.refresh(task) and the answer built from the refreshed row.
ToggleRefresh(r) ==
    /\ toggle.req[r].pc = "committed"
    /\ toggle' = [toggle EXCEPT !.req[r].pc = "done",
                                !.req[r].completed = toggle.completed,
                                !.req[r] = @ @@ [status |-> IF toggle.completed
                                                           THEN "completed"
                                                           ELSE "uncompleted"]]
    /\ ToggleFrame

\* A task of u1, completed or not, and two requests that have not begun.
InitToggle ==
    /\ variant = "backend"
    /\ tasks = NoTasks
    /\ nextId = 1
    /\ last = NoCall
    /\ chat = NoChat
    /\ conversations = <<>>
    /\ messages = <<>>
    /\ extract = NoExtract
    /\ todo = NoTodo
    /\ \E completed \in BOOLEAN, user1 \in Users, user2 \in Users,
          via1 \in Entries, via2 \in Entries :
          toggle = [started |-> TRUE, owner |-> "u1", original |-> completed,
                    completed |-> completed, writes |-> 0,
                    req |-> [r \in Requests |->
                                IF r = 1 THEN ToggleRequest(user1, via1)
                                ELSE ToggleRequest(user2, via2)]]

NextToggle ==
    \E r \in Requests :
        \/ ToggleRead(r)
        \/ ToggleWrite(r)
        \/ ToggleRefresh(r)

SpecToggle == InitToggle /\ [][NextToggle]_vars

(***************************************************************************)
(* Properties of the orchestrator and of the chat endpoints.               *)
(***************************************************************************)
\* The arguments of the extracted command, as process_message reads them.
CommandArgs == GetDefault(chat.func_call, "arguments", JObj(EmptyMap))

\* C2: whenever process_message dispatches a tool, the user_id handed to the tool
\* handler is the user_id process_message was called with, whatever user_id entry
\* the extracted command carried, and no task of another user is changed or
\* deleted by the request.
C2_OwnerInjection ==
    (chat.made /\ chat.llm_called) =>
        /\ \A k \in DOMAIN chat.calls :
              Get(chat.calls[k].args, "user_id") = JStr(chat.user_id)
        /\ \A i \in DOMAIN chat.pre :
              chat.pre[i].user_id # chat.user_id =>
                  i \in DOMAIN tasks /\ tasks[i] = chat.pre[i]

\* C2 witness: a command that carried the user_id of another user, who owns the task it
\* names, was dispatched.
C2_Witness ==
    /\ chat.made /\ chat.llm_called /\ Len(chat.calls) = 1
    /\ HasKey(CommandArgs, "user_id")
    /\ Get(CommandArgs, "user_id") # JStr(chat.user_id)
    /\ 1 \in DOMAIN chat.pre
    /\ JStr(chat.pre[1].user_id) = Get(CommandArgs, "user_id")

\* C5: every command the extractor returns has a function entry, and the entry is
\* not null.
C5_ExtractorValidation ==
    (chat.made /\ chat.llm_called /\ chat.func_call # PyNone) =>
        /\ HasKey(chat.func_call, "function")
        /\ Get(chat.func_call, "function") # JNull

\* C6: when the LLM call returns a completion, process_message returns a reply and
\* an invocation list whatever the extractor made of the completion: a request
\* that dispatched no tool does not end in an exception.
C6_ReachesDone ==
    (chat.made /\ chat.llm_called /\ chat.llm.ok /\ chat.calls = <<>>) => ~chat.raised

\* C7: when the extracted command names one of the five tools, the dispatch step of
\* process_message ends with a result and no exception, whatever the arguments
\* value of the command is.
C7_DispatchNeverRaises ==
    (chat.made /\ chat.llm_called /\ chat.func_call # PyNone
        /\ \E name \in ToolNames : Get(chat.func_call, "function") = JStr(name))
    => ~chat.raised

\* C8: a backend or phase-2 chat request whose verified token subject is not the path
\* user_id is answered 403 without the LLM being called, a tool being dispatched
\* or the task table changing.
C8_ChatAuthorization ==
    (chat.made /\ chat.token \in Users /\ chat.token # chat.user_id) =>
        /\ chat.status = 403
        /\ ~chat.llm_called
        /\ chat.calls = <<>>
        /\ tasks = chat.pre

\* C8 witness: such a request was made while the table held a task of the path user.
C8_Witness ==
    /\ chat.made /\ chat.token \in Users /\ chat.token # chat.user_id
    /\ \E i \in DOMAIN tasks : tasks[i].user_id = chat.user_id

\* C9: a phase-3 chat request that does not carry a verified token of the path user
\* is rejected: the agent is not called and no conversation or message is stored.
C9_Phase3ChatAuthorization ==
    (chat.made /\ chat.token # chat.user_id) =>
        /\ chat.status \in {401, 403}
        /\ ~chat.llm_called
        /\ conversations = chat.pre_conversations
        /\ messages = chat.pre_messages

(***************************************************************************)
(* Properties of the dispatcher.                                           *)
(***************************************************************************)
\* The last call named one of the tools that address a task by id, and gave an id.
AddressedTask ==
    /\ last.made
    /\ last.name \in {"complete_task", "delete_task", "update_task"}
    /\ HasKey(last.args, "task_id")
\* The id the last call addressed.
AddressedId == last.args.m["task_id"].n
\* The last call addressed a row that existed and belonged to another user.
ForeignCall ==
    /\ AddressedTask
    /\ AddressedId \in DOMAIN last.pre
    /\ last.pre[AddressedId].user_id # last.user
\* C1: a complete_task, delete_task or update_task call that names a task of
\* another user returns status not_found and leaves that task as it was, in the
\* backend and in the phase-3 dispatcher, whatever calls of both users came before.
C1_CrossUserIsolation ==
    ForeignCall =>
        /\ ~last.out.raised
        /\ last.out.result.status = "not_found"
        /\ AddressedId \in DOMAIN tasks
        /\ tasks[AddressedId] = last.pre[AddressedId]

\* A user asked to delete a task that another user owns (and had completed or
\* retitled before), in the phase-3 dispatcher.
C1_Witness ==
    /\ ForeignCall
    /\ variant = "phase-3"
    /\ last.name = "delete_task"
    /\ last.pre[AddressedId].completed

\* The last call was a complete_task that found its task.
CompletedCall(l) ==
    /\ l.made
    /\ l.name = "complete_task"
    /\ ~l.out.raised
    /\ l.out.result.status # "not_found"

C4_Phase3Toggle ==
    (variant = "phase-3" /\ CompletedCall(last)) =>
        /\ tasks[AddressedId].completed = ~last.pre[AddressedId].completed
        /\ last.out.result.status =
              IF tasks[AddressedId].completed THEN "completed" ELSE "uncompleted"

\* The table before the last call, without the row the call addressed.
WithoutAddressed ==
    [tasks |-> [i \in (DOMAIN last.pre) \ {AddressedId} |-> last.pre[i]],
     nextId |-> nextId]

\* C10: in the backend, the result and the reply of a complete_task, delete_task or
\* update_task call that names a task of another user are the result and the reply
\* the same call gets when no row with that id exists.
C10_NotFoundIndistinguishable ==
    (variant = "backend" /\ ForeignCall) =>
        LET absent == Backend_call_tool(WithoutAddressed, JStr(last.name), last.args, <<>>) IN
        /\ ~last.out.raised
        /\ ~absent.raised
        /\ last.out.result = absent.result
        /\ ResponseText(JStr(last.name), last.out.result)
              = ResponseText(JStr(last.name), absent.result)

\* A backend update_task call named a task of another user and was answered
\* "Task not found."
C10_Witness ==
    /\ variant = "backend"
    /\ ForeignCall
    /\ last.name = "update_task"
    /\ ~last.out.raised
    /\ ResponseText(JStr(last.name), last.out.result) = TaskNotFoundReply

(***************************************************************************)
(* Properties of the tool handlers.                                        *)
(***************************************************************************)
\* The last call was a list_tasks that returned.
ListedCall == last.made /\ last.name = "list_tasks" /\ ~last.out.raised
\* The ids of the list the last call returned, in the order of the list.
ListedIds == [k \in DOMAIN last.out.result.tasks |-> last.out.result.tasks[k].id]

\* C11: in the list a list_tasks call returns, a task created earlier (the one with
\* the smaller id) comes before a task created later, in the backend and in the
\* phase-3 dispatcher.
C11_CreationOrder ==
    ListedCall =>
        \A j, k \in DOMAIN ListedIds : j < k => ListedIds[j] < ListedIds[k]

\* C12: a list_tasks call returns each task of the caller that exists once, with its
\* title and completed flag, and no task of another user; count is the length of
\* the list; the call changes no task.
C12_ListExactlyOwn ==
    (last.made /\ last.name = "list_tasks") =>
        /\ ~last.out.raised
        /\ {ListedIds[k] : k \in DOMAIN ListedIds} = TasksOf([tasks |-> last.pre], last.user)
        /\ \A j, k \in DOMAIN ListedIds : ListedIds[j] = ListedIds[k] => j = k
        /\ \A k \in DOMAIN ListedIds :
              /\ last.out.result.tasks[k].title = last.pre[ListedIds[k]].title
              /\ last.out.result.tasks[k].completed = last.pre[ListedIds[k]].completed
        /\ last.out.result.count = Len(last.out.result.tasks)
        /\ tasks = last.pre

\* C12 witness: a backend list_tasks call returned a task of the caller while the table
\* also held a task of another user.
C12_Witness ==
    /\ ListedCall
    /\ variant = "backend"
    /\ Len(ListedIds) = 1
    /\ \E i \in DOMAIN last.pre : last.pre[i].user_id # last.user

\* The last call was an add_task with a string for title.
AddCall ==
    /\ last.made /\ last.name = "add_task"
    /\ Get(last.args, "title").t = "str"
\* The id the last add_task call returned.
AddedId == last.out.result.task_id.n

\* C13: an add_task call with a title returns status created with the title and an id
\* that no task had; the table after it is the table before it plus one task with
\* that id, the title, completed false and the caller as owner; a list_tasks of the
\* same caller made next, whatever order the rows come in, holds the new task; the
\* reply is "Added task: '<title>' (ID: <task_id>)" with that title and id.
C13_AddTask ==
    AddCall =>
        /\ ~last.out.raised
        /\ last.out.result.status = "created"
        /\ last.out.result.title = Get(last.args, "title")
        /\ AddedId \notin DOMAIN last.pre
        /\ DOMAIN tasks = DOMAIN last.pre \cup {AddedId}
        /\ tasks[AddedId] = [user_id |-> last.user, title |-> Get(last.args, "title").s,
                             completed |-> FALSE]
        /\ \A i \in DOMAIN last.pre : tasks[i] = last.pre[i]
        /\ \A order \in Orders(DOMAIN tasks) :
              LET listed == call_mcp_tool(Db, JStr("list_tasks"),
                                          InjectUser(JObj(EmptyMap), last.user), order)
              IN  /\ ~listed.raised
                  /\ \E k \in DOMAIN listed.result.tasks :
                        /\ listed.result.tasks[k].id = AddedId
                        /\ listed.result.tasks[k].title = Get(last.args, "title").s
                        /\ ~listed.result.tasks[k].completed
        /\ ResponseText(JStr("add_task"), last.out.result)
              = [fmt |-> "Added task: '{title}' (ID: {task_id})",
                 title |-> Get(last.args, "title"), task_id |-> JNum(AddedId)]

\* C13 witness: a backend add_task call of a second user returned while the table
\* already held a task.
C13_Witness ==
    /\ AddCall /\ ~last.out.raised
    /\ variant = "backend"
    /\ last.pre # NoTasks
    /\ \E i \in DOMAIN last.pre : last.pre[i].user_id # last.user

(***************************************************************************)
(* Properties of process_message, read off the last chat request.          *)
(***************************************************************************)
\* The last request reached process_message and the LLM returned a completion.
Completed == chat.made /\ chat.llm_called /\ chat.llm.ok
\* The function entry of the extracted command.
CommandName == Get(chat.func_call, "function")
\* The extracted command names a function that is none of the five tools.
UnknownToolCommand ==
    /\ Completed
    /\ chat.func_call # PyNone
    /\ CommandName.t = "str"
    /\ CommandName.s \notin ToolNames \cup {""}

\* C14: when the extracted command names a function that is none of the five tools,
\* process_message returns the reply "Done!" and an invocation list of one record
\* with that name and the payload {error: "Unknown tool: <name>"} as result, and no
\* task is created, changed or deleted.
C14_UnknownTool ==
    UnknownToolCommand =>
        /\ ~chat.raised
        /\ chat.out.response = [fmt |-> "Done!"]
        /\ Len(chat.out.tool_calls) = 1
        /\ chat.out.tool_calls[1].name = CommandName
        /\ chat.out.tool_calls[1].result = UnknownToolResult(CommandName)
        /\ tasks = chat.pre

\* C15: when the extractor finds no command in the completion, process_message
\* returns the completion text itself as the reply, or the help string when the
\* text is empty, with an empty invocation list; no tool is dispatched and the task
\* table is unchanged.
C15_Passthrough ==
    (Completed /\ chat.func_call = PyNone) =>
        /\ ~chat.raised
        /\ chat.out.response =
              IF chat.llm.content = <<>> THEN HelpReply
              ELSE [fmt |-> "{llm_response}", llm_response |-> chat.llm.content]
        /\ chat.out.tool_calls = <<>>
        /\ chat.calls = <<>>
        /\ tasks = chat.pre

\* C15 witness: the completion was a command cut off inside its JSON, the table held
\* tasks, and the request was answered 200.
C15_Witness ==
    /\ Completed /\ chat.func_call = PyNone
    /\ chat.llm.content = Truncated
    /\ chat.status = 200
    /\ tasks # NoTasks

\* The table before the last request, with the id sequence as it was then.
ChatPreDb ==
    [tasks |-> chat.pre,
     nextId |-> IF Cardinality(DOMAIN tasks) > Cardinality(DOMAIN chat.pre)
                THEN nextId - 1 ELSE nextId]

\* C16: process_message dispatches at most one tool; the invocation list it returns
\* has one record when a tool was dispatched and none otherwise; the record holds
\* the name of the tool, the result the dispatcher returned for that call, and the
\* arguments passed to the tool without the user_id entry and with every other
\* entry as passed.
C16_AuditTrail ==
    (chat.made /\ chat.llm_called) =>
        /\ Len(chat.calls) <= 1
        /\ ~chat.raised =>
              /\ Len(chat.out.tool_calls) = Len(chat.calls)
              /\ \A k \in DOMAIN chat.calls :
                    LET rec == chat.out.tool_calls[k]
                        call == chat.calls[k]
                    IN  /\ rec.name = call.name
                        /\ DOMAIN rec.arguments.m = (DOMAIN call.args.m) \ {"user_id"}
                        /\ \A key \in DOMAIN rec.arguments.m :
                              rec.arguments.m[key] = call.args.m[key]
                        /\ \E order \in Orders(DOMAIN chat.pre) :
                              LET out == call_mcp_tool(ChatPreDb, call.name, call.args, order)
                              IN  ~out.raised /\ rec.result = out.result

\* C16 witness: a complete_task command that carried a user_id entry and a task_id
\* was dispatched and found its task; the record holds the task_id.
C16_Witness ==
    /\ Completed /\ ~chat.raised
    /\ Len(chat.out.tool_calls) = 1
    /\ HasKey(CommandArgs, "user_id")
    /\ HasKey(chat.out.tool_calls[1].arguments, "task_id")
    /\ chat.out.tool_calls[1].result.status = "completed"

\* C17: when the LLM call raises, process_message raises that error, the backend or
\* phase-2 chat endpoint answers 500, no tool is dispatched and the task table is
\* unchanged.
C17_LlmFailure ==
    (chat.made /\ chat.llm_called /\ ~chat.llm.ok) =>
        /\ chat.raised
        /\ chat.out.exc = "LLMError"
        /\ chat.status = 500
        /\ chat.calls = <<>>
        /\ tasks = chat.pre

\* C17 witness: the LLM call failed on a request of a user who has a task.
C17_Witness ==
    /\ chat.made /\ chat.llm_called /\ ~chat.llm.ok
    /\ \E i \in DOMAIN tasks : tasks[i].user_id = chat.user_id

(***************************************************************************)
(* Properties of the extractor.                                            *)
(***************************************************************************)
\* What method n makes of the text.
MethodResult(n, toks) ==
    CASE n = 1 -> Method1(toks)
      [] n = 2 -> Method2(toks)
      [] n = 3 -> Method3(toks)
      [] n = 4 -> Method4(toks)
\* The methods that succeed on the text while every earlier one fails.
FirstSuccess(toks) ==
    {n \in 1..4 : /\ MethodResult(n, toks).found
                  /\ \A j \in 1..(n - 1) : ~MethodResult(j, toks).found}

\* C18: the extractor returns what the first of whole-text parse, fenced block,
\* inline object and reconstruction that succeeds returns, and None when none
\* succeeds; whenever the whole-text parse succeeds, the returned command is the
\* JSON parse of the trimmed text.
C18_StrategyOrder ==
    extract.done =>
        /\ FirstSuccess(extract.text) = {} => extract.result = PyNone
        /\ \A n \in FirstSuccess(extract.text) :
              extract.result = MethodResult(n, extract.text).data
        /\ Method1(extract.text).found =>
              extract.result = JsonLoads(Strip(extract.text)).v

\* C18 witness: the whole-text parse succeeded on a text from which the
\* reconstruction would have made a different command.
C18_Witness ==
    /\ extract.done
    /\ extract.method = 1
    /\ Method4(extract.text).found
    /\ Method4(extract.text).data # extract.result

\* C19: for a command object with a function name and an arguments object, the
\* extractor returns that command (the same name, the same arguments) whether the
\* object is the whole text, stands in a fenced block with or without the json tag,
\* or has prose around it; for a text that holds no object it returns None.
C19_WrapperIndependence ==
    extract.done =>
        /\ extract.object \in CanonicalCommands =>
              extract.result = JsonLoads(extract.object).v
        /\ extract.object \in NoObjects => extract.result = PyNone

\* C19 witness: the add_task command with prose around it was put together again by
\* the fourth method.
C19_Witness ==
    /\ extract.done
    /\ extract.wrapper = "prose around"
    /\ extract.object = NamedCommand("add_task", <<Member("title", <<Str("x")>>)>>)
    /\ extract.method = 4

(***************************************************************************)
(* Properties of the task table.                                           *)
(***************************************************************************)
\* C20: whatever add_task and update_task calls the dispatcher has served, with a
\* title, an empty title or none, every stored task has a non-empty title.
C20_TitleNonEmpty == \A i \in DOMAIN tasks : tasks[i].title # ""

(***************************************************************************)
(* Properties of the phase-1 store.                                        *)
(***************************************************************************)
\* The largest id among the tasks, 0 when there is none.
LargestId(ts) ==
    IF ts = <<>> THEN 0
    ELSE CHOOSE n \in {ts[k].id : k \in DOMAIN ts} :
            \A k \in DOMAIN ts : ts[k].id <= n

\* C21: the task add_task appends has status False and the id of the counter, which
\* then grows by one, so that two add_task calls in a row return consecutive ids;
\* the first add_task after the file was loaded returns one more than the largest
\* id among the loaded tasks, which is 1 when the file is missing, empty or holds
\* no task.
C21_IdAssignment ==
    [][todo'.last.op = "add_task" =>
          /\ todo'.tasks = Append(todo.tasks, Task("a", "d", todo'.last.id, FALSE))
          /\ todo'.last.id = todo.counter
          /\ todo'.counter = todo.counter + 1
          /\ todo.last.op = "add_task" => todo'.last.id = todo.last.id + 1
          /\ todo.last.op = "_load_tasks" =>
                todo'.last.id = LargestId(todo.tasks) + 1]_vars

\* C21 witness: the file held the single task 1 when it was loaded, and the
\* add_task that followed returned id 2.
C21_Witness ==
    /\ todo.last.op = "add_task"
    /\ todo.last.after = "_load_tasks"
    /\ todo.last.id = 2
    /\ Len(todo.tasks) = 2

\* C22: whatever calls were made, loading tasks.json gives the list list_tasks
\* returns: the same tasks with the same ids, titles, descriptions and status
\* values, in the same order.
C22_RoundTrip == load_tasks(TodoStore).tasks = Todo_list_tasks(TodoStore)

\* C22 witness: the file was loaded after tasks were added, changed and completed,
\* and the list holds two tasks, one completed and one with a new title and a new
\* description.
C22_Witness ==
    /\ todo.last.op = "_load_tasks"
    /\ todo.last.after \in {"update_task", "complete_task", "delete_task",
                            "incomplete_task"}
    /\ Len(todo.tasks) = 2
    /\ todo.tasks[1].status
    /\ todo.tasks[2].title = "b"
    /\ todo.tasks[2].description = "e"

\* The calls that look a task up by its id.
ByIdOps == {"get_task", "update_task", "delete_task", "complete_task",
            "incomplete_task"}
\* No task of the list holds the id.
NoSuchTask(ts, task_id) == \A k \in DOMAIN ts : ts[k].id # task_id

\* C23: get_task, update_task, delete_task, complete_task and incomplete_task
\* called with an id that no stored task holds raise ValueError and leave the list
\* and the file as they were.
C23_MissingId ==
    [][(todo'.last.op \in ByIdOps /\ NoSuchTask(todo.tasks, todo'.last.task_id)) =>
          /\ todo'.last.raised
          /\ todo'.tasks = todo.tasks
          /\ todo'.file = todo.file
          /\ todo'.counter = todo.counter]_vars

\* C23 witness: delete_task raised for the id of a task that was deleted before,
\* while another task is stored.
C23_Witness ==
    /\ todo.last.op = "delete_task"
    /\ todo.last.raised
    /\ todo.last.task_id \in todo.issued
    /\ todo.tasks # <<>>

\* The position of the task that holds the id.
PositionOf(ts, task_id) == CHOOSE k \in DOMAIN ts : ts[k].id = task_id

\* What a call on a stored task made of it: the task before and the task after.
TaskEffect(op, title, description, old, new) ==
    /\ op = "complete_task" => new = [old EXCEPT !.status = TRUE]
    /\ op = "incomplete_task" => new = [old EXCEPT !.status = FALSE]
    /\ op = "update_task" =>
          /\ new.id = old.id
          /\ new.status = old.status
          /\ title = PyNone => new.title = old.title
          /\ description = PyNone => new.description = old.description

\* C24: complete_task sets the status of the task to True and incomplete_task sets
\* it to False, whatever it was; neither changes the id, the title or the
\* description of the task, and no other task changes; update_task leaves a field
\* whose argument is None as it was.
C24_SetNotToggle ==
    [][(/\ todo'.last.op \in {"complete_task", "incomplete_task", "update_task"}
        /\ ~NoSuchTask(todo.tasks, todo'.last.task_id)) =>
          /\ ~todo'.last.raised
          /\ Len(todo'.tasks) = Len(todo.tasks)
          /\ \A j \in DOMAIN todo.tasks :
                j # PositionOf(todo.tasks, todo'.last.task_id) =>
                    todo'.tasks[j] = todo.tasks[j]
          /\ TaskEffect(todo'.last.op, todo'.last.title, todo'.last.description,
                        todo.tasks[PositionOf(todo.tasks, todo'.last.task_id)],
                        todo'.tasks[PositionOf(todo.tasks, todo'.last.task_id)])]_vars

\* C24 witness: complete_task returned the only task ever added, completed, right
\* after another complete_task call.
C24_Witness ==
    /\ todo.last.op = "complete_task"
    /\ todo.last.after = "complete_task"
    /\ ~todo.last.raised
    /\ todo.issued = {1}
    /\ Len(todo.tasks) = 1
    /\ todo.tasks[1].status

\* C25: over add_task, delete_task and loading the file again, add_task never
\* returns an id that it has returned before, also when the task with the largest
\* id was deleted before the file was loaded.
C25_NoIdReuse ==
    [][todo'.last.op = "add_task" => todo'.last.id \notin todo.issued]_vars

(***************************************************************************)
(* Properties of the phase-3 chat endpoint.                                *)
(***************************************************************************)
\* The rows of a conversation and a user among the stored messages, oldest first.
StoredFor(msgs, user_id, conversation_id) ==
    SelectSeq(msgs, LAMBDA m : m.conversation_id = conversation_id /\ m.user_id = user_id)
\* The user turn of the request.
CurrentTurn == [role |-> "user", content |-> chat.request.message]

\* C27: the history handed to the agent is the role and content of exactly the
\* messages stored for the conversation and the user before the request, oldest
\* first, without the message of the request; the prompt is the system prompt, this
\* history and the message of the request as its last element, so that a message
\* text not sent before occurs in the prompt once.
C27_PromptAssembly ==
    (chat.made /\ chat.llm_called) =>
        /\ Len(chat.history) =
              Len(StoredFor(chat.pre_messages, chat.user_id, chat.conversation_id))
        /\ \A k \in DOMAIN chat.history :
              /\ chat.history[k].role =
                    StoredFor(chat.pre_messages, chat.user_id, chat.conversation_id)[k].role
              /\ chat.history[k].content =
                    StoredFor(chat.pre_messages, chat.user_id, chat.conversation_id)[k].content
        /\ chat.prompt = <<[role |-> "system", content |-> "SYSTEM_PROMPT"]>>
                            \o chat.history \o <<CurrentTurn>>
        /\ (\A k \in DOMAIN chat.history :
                chat.history[k].role = "user" =>
                    chat.history[k].content # chat.request.message)
              => {k \in DOMAIN chat.prompt :
                    /\ chat.prompt[k].role = "user"
                    /\ chat.prompt[k].content = chat.request.message}
                    = {Len(chat.prompt)}

\* C27 witness: the second request of a conversation, with a new text, was handed
\* the user message and the assistant reply of the first.
C27_Witness ==
    /\ chat.made
    /\ chat.llm_called
    /\ Len(chat.history) = 2
    /\ chat.history[1] = [role |-> "user", content |-> "hi"]
    /\ chat.history[2].role = "assistant"
    /\ chat.request.message = "more"

\* C26: in every conversation the stored messages, oldest first, alternate user,
\* assistant, user, assistant, also after requests whose agent call failed: every
\* user message of a finished request is followed at once by its assistant reply.
C26_Alternation ==
    \A c \in DOMAIN conversations :
        \A k \in DOMAIN StoredFor(messages, conversations[c].user_id, c) :
            StoredFor(messages, conversations[c].user_id, c)[k].role =
                (IF k % 2 = 1 THEN "user" ELSE "assistant")

\* The request named a conversation id that is not the id of a conversation of the
\* path user.
NamedForeignConversation ==
    /\ chat.made
    /\ chat.request.conversation_id # PyNone
    /\ ~(/\ chat.request.conversation_id.n \in DOMAIN chat.pre_conversations
         /\ chat.pre_conversations[chat.request.conversation_id.n].user_id = chat.user_id)

\* C30: a chat request that names a conversation id which no conversation has, or
\* which is another user's, is answered 404 with nothing done: no message and no
\* conversation is stored, the agent is not called and no task changes; and the
\* history handed to the agent holds no message of another user.
C30_ConversationIsolation ==
    /\ NamedForeignConversation =>
          /\ chat.status = 404
          /\ ~chat.llm_called
          /\ messages = chat.pre_messages
          /\ conversations = chat.pre_conversations
          /\ tasks = chat.pre
    /\ (chat.made /\ chat.llm_called) =>
          Len(chat.history) =
              Len(SelectSeq(chat.pre_messages,
                            LAMBDA m : /\ m.user_id = chat.user_id
                                       /\ m.conversation_id = chat.conversation_id))

(***************************************************************************)
(* Frame of the dispatcher operations.                                     *)
(***************************************************************************)
\* The last call was a complete_task, delete_task or update_task that returned.
ByIdCall ==
    /\ last.made
    /\ last.name \in {"complete_task", "delete_task", "update_task"}
    /\ ~last.out.raised
\* The id in the result of the last call.
ResultId == last.out.result.task_id.n
\* Every row but row id is in the table as it was before the call, and the table
\* holds no row that was not there before.
OthersKept(id) ==
    /\ DOMAIN tasks \subseteq DOMAIN last.pre
    /\ \A i \in DOMAIN last.pre \ {id} : i \in DOMAIN tasks /\ tasks[i] = last.pre[i]

BothToggled ==
    /\ toggle.started
    /\ \A r \in Requests :
          toggle.req[r].pc = "done" /\ toggle.req[r].status # "not_found"

\* C28: when two complete requests of the owner on the same task have both been
\* served, in whatever order their reads and commits fell, the completed flag of
\* the task is what it was before them, as after two calls made one after the other.
C28_NoLostToggle == BothToggled => toggle.completed = toggle.original

====
